---- MODULE Spec2Model ----
(***************************************************************************)
(* Model of the heat-exchanger dashboard's time-series pipeline            *)
(* (Frontend/src/Pages/Dashboard.js, useMemo `processedData`).             *)
(*                                                                         *)
(* Numbers.  A JavaScript Number is an IEEE-754 binary floating-point      *)
(* value, every arithmetic operator rounding its exact result to nearest,  *)
(* ties to even.  The model keeps exactly that arithmetic, with a          *)
(* significand of Prec bits instead of 53 (TLC integers are 32 bits wide)  *)
(* and the exponent range of binary64 upwards: a result of magnitude       *)
(* 2^EMax or more is Infinity.  There are no subnormals: the exponent is   *)
(* unbounded downwards.                                                    *)
(* A finite number is s * m * 2^e with m = 0 or 2^(Prec-1) <= m < 2^Prec.  *)
(* -0 is identified with 0.  A field of a reading may also hold null, the  *)
(* JSON text of a NaN; an arithmetic operator reads null as 0.             *)
(*                                                                         *)
(* Time.  A Date is a time value; the model counts it in units of 30       *)
(* minutes (the step of the generated mock data) since 1970-01-01T00:00Z   *)
(* instead of milliseconds.  The local-time                                *)
(* methods of Date (getDate, setDate, getFullYear, setFullYear) work on    *)
(* the host's civil time, so the host's time zone is part of the state.    *)
(***************************************************************************)
EXTENDS Integers, Sequences, FiniteSets, TLC

(***************************************************************************)
(* Bounds of the model                                                     *)
(***************************************************************************)
\* width of the significand of a Number in the model (binary64 has 53)
Prec == 13

(***************************************************************************)
(* Number: binary floating point, round to nearest even                    *)
(***************************************************************************)
Zero == [k |-> "fin", s |-> 1, m |-> 0, e |-> 0]
NaN == [k |-> "nan", s |-> 1, m |-> 0, e |-> 0]
Inf(sg) == [k |-> "inf", s |-> sg, m |-> 0, e |-> 0]

\* null, and ToNumber(v) for a Number or null v
Null == [k |-> "null", s |-> 1, m |-> 0, e |-> 0]
ToNumber(v) == IF v.k = "null" THEN Zero ELSE v

\* binary64: every finite Number is below 2^EMax in magnitude
EMax == 1024

\* s * m * 2^e for a normalised m, or Infinity when it is out of range
Finite(sg, m, ex) ==
  IF ex + Prec > EMax THEN Inf(sg) ELSE [k |-> "fin", s |-> sg, m |-> m, e |-> ex]

\* Number.MAX_VALUE
MAX_VALUE == [k |-> "fin", s |-> 1, m |-> 2^Prec - 1, e |-> EMax - Prec]

IsNaN(a) == a.k = "nan"
IsFin(a) == a.k = "fin"
IsZero(a) == a.k = "fin" /\ a.m = 0

\* number of bits of M, for 0 < M < 2^31
BitLen(M) == CHOOSE nb \in 1..31 : 2^(nb - 1) <= M /\ (nb = 31 \/ M < 2^nb)

\* s * (M + f) * 2^e rounded to Prec bits, where 0 <= f < 1 and f > 0 iff sticky
Round(sg, M, ex, sticky) ==
  IF M = 0 THEN Zero
  ELSE LET nb == BitLen(M) IN
    IF nb <= Prec
    THEN Finite(sg, M * 2^(Prec - nb), ex - (Prec - nb))
    ELSE LET sh == nb - Prec
             q == M \div 2^sh
             r == M % 2^sh
             half == 2^(sh - 1)
             up == r > half \/ (r = half /\ (sticky \/ q % 2 = 1))
             q1 == IF up THEN q + 1 ELSE q
         IN IF q1 = 2^Prec
            THEN Finite(sg, 2^(Prec - 1), ex + sh + 1)
            ELSE Finite(sg, q1, ex + sh)

\* long division num/den, four quotient bits at a time, until the quotient has
\* at least Prec + 2 bits; the remainder is the sticky bit (den < 2^27)
RECURSIVE DivBits(_, _, _, _, _)
DivBits(sg, q, r, den, ex) ==
  IF q >= 2^(Prec + 1)
  THEN Round(sg, q, ex, r # 0)
  ELSE DivBits(sg, 16 * q + ((16 * r) \div den), (16 * r) % den, den, ex - 4)

\* the Number nearest to sg * (num / den) * 2^ex, for num >= 0 and den > 0
RatToNum(sg, num, den, ex) ==
  IF num = 0 THEN Zero ELSE DivBits(sg, num \div den, num % den, den, ex)

\* a decimal literal num/den of the source text
Lit(num, den) == RatToNum(1, num, den, 0)

\* an integer-valued Number (an array index, a length)
FromInt(i) == IF i >= 0 THEN Round(1, i, 0, FALSE) ELSE Round(-1, -i, 0, FALSE)

\* -x
FNeg(x) ==
  LET a == ToNumber(x)
  IN IF a.k = "nan" \/ IsZero(a) THEN a ELSE [a EXCEPT !.s = -a.s]

\* a + b
FAdd(x, y) ==
  LET a == ToNumber(x)
      b == ToNumber(y)
  IN IF a.k = "nan" \/ b.k = "nan" THEN NaN
     ELSE IF a.k = "inf" /\ b.k = "inf" THEN (IF a.s = b.s THEN a ELSE NaN)
     ELSE IF a.k = "inf" THEN a
     ELSE IF b.k = "inf" THEN b
     ELSE IF a.m = 0 THEN b
     ELSE IF b.m = 0 THEN a
     ELSE LET hi == IF a.e >= b.e THEN a ELSE b
              lo == IF a.e >= b.e THEN b ELSE a
              d == hi.e - lo.e
          IN IF d > Prec + 2
             THEN IF hi.s = lo.s
                  THEN Round(hi.s, hi.m * 4, hi.e - 2, TRUE)
                  ELSE Round(hi.s, hi.m * 4 - 1, hi.e - 2, TRUE)
             ELSE LET S == hi.s * hi.m * 2^d + lo.s * lo.m
                  IN IF S >= 0 THEN Round(1, S, lo.e, FALSE) ELSE Round(-1, -S, lo.e, FALSE)

\* a - b
FSub(a, b) == FAdd(a, FNeg(b))

\* a * b
FMul(x, y) ==
  LET a == ToNumber(x)
      b == ToNumber(y)
  IN IF a.k = "nan" \/ b.k = "nan" THEN NaN
     ELSE IF a.k = "inf" \/ b.k = "inf"
          THEN (IF IsZero(a) \/ IsZero(b) THEN NaN ELSE Inf(a.s * b.s))
     ELSE Round(a.s * b.s, a.m * b.m, a.e + b.e, FALSE)

\* a / b
FDiv(x, y) ==
  LET a == ToNumber(x)
      b == ToNumber(y)
  IN IF a.k = "nan" \/ b.k = "nan" THEN NaN
     ELSE IF a.k = "inf" THEN (IF b.k = "inf" THEN NaN ELSE Inf(a.s * b.s))
     ELSE IF b.k = "inf" THEN Zero
     ELSE IF b.m = 0 THEN (IF a.m = 0 THEN NaN ELSE Inf(a.s))
     ELSE RatToNum(a.s * b.s, a.m, b.m, a.e - b.e)

\* a < b  (false when either side is NaN)
FLt(x, y) ==
  LET a == ToNumber(x)
      b == ToNumber(y)
  IN IF a.k = "nan" \/ b.k = "nan" THEN FALSE
     ELSE IF a.k = "inf" THEN a.s = -1 /\ ~(b.k = "inf" /\ b.s = -1)
     ELSE IF b.k = "inf" THEN b.s = 1
     ELSE IF a.m = 0 THEN b.m # 0 /\ b.s = 1
     ELSE IF b.m = 0 THEN a.s = -1
     ELSE IF a.s # b.s THEN a.s = -1
     ELSE IF a.s = 1 THEN a.e < b.e \/ (a.e = b.e /\ a.m < b.m)
     ELSE a.e > b.e \/ (a.e = b.e /\ a.m > b.m)

\* a > b, a <= b, a >= b
FGt(a, b) == FLt(b, a)
FLe(a, b) == a.k # "nan" /\ b.k # "nan" /\ ~FLt(b, a)
FGe(a, b) == FLe(b, a)

\* Math.max(a, b), Math.min(a, b)
MathMax(x, y) ==
  LET a == ToNumber(x)
      b == ToNumber(y)
  IN IF a.k = "nan" \/ b.k = "nan" THEN NaN ELSE IF FLt(a, b) THEN b ELSE a
MathMin(x, y) ==
  LET a == ToNumber(x)
      b == ToNumber(y)
  IN IF a.k = "nan" \/ b.k = "nan" THEN NaN ELSE IF FLt(b, a) THEN b ELSE a

(***************************************************************************)
(* Date: time values, civil time as in ECMAScript's Date                   *)
(***************************************************************************)
\* 60 * 60 * 1000 ms, in the model's unit of time
HourMs == 2
HoursPerDay == 24
msPerDay == HoursPerDay * HourMs

Day(t) == t \div msPerDay
TimeWithinDay(t) == t % msPerDay

\* number of the first day of year y, counted from 1970-01-01
DayFromYear(y) ==
  365 * (y - 1970) + ((y - 1969) \div 4) - ((y - 1901) \div 100) + ((y - 1601) \div 400)

RECURSIVE YearFromDay(_, _)
YearFromDay(d, y) == IF DayFromYear(y + 1) <= d THEN YearFromDay(d, y + 1) ELSE y

YearFromTime(t) == YearFromDay(Day(t), 1970 + (Day(t) \div 366))

InLeapYear(t) == DayFromYear(YearFromTime(t) + 1) - DayFromYear(YearFromTime(t)) = 366

\* first day of month mo (0 = January) within a year
MonthStart(leap, mo) ==
  <<0, 31, 59, 90, 120, 151, 181, 212, 243, 273, 304, 334>>[mo + 1]
    + (IF leap /\ mo >= 2 THEN 1 ELSE 0)

DayWithinYear(t) == Day(t) - DayFromYear(YearFromTime(t))

MonthFromTime(t) ==
  CHOOSE mo \in 0..11 :
    /\ MonthStart(InLeapYear(t), mo) <= DayWithinYear(t)
    /\ (mo = 11 \/ DayWithinYear(t) < MonthStart(InLeapYear(t), mo + 1))

\* day of the month, 1..31
DateFromTime(t) == DayWithinYear(t) - MonthStart(InLeapYear(t), MonthFromTime(t)) + 1

\* day number of the date-th day of month mo of year y; date may be <= 0 or
\* past the end of the month and then runs into the neighbouring months
MakeDay(y, mo, date) ==
  DayFromYear(y)
    + MonthStart(DayFromYear(y + 1) - DayFromYear(y) = 366, mo)
    + date - 1

MakeDate(day, time) == day * msPerDay + time

\* offset of local time from UTC at the UTC time value t
LocalTZA(zone, t) == IF t < zone.T THEN zone.before ELSE zone.after

LocalTime(zone, t) == t + LocalTZA(zone, t)

\* UTC time value of a local time; a local time that occurs twice or not at
\* all around the zone's offset change is read with the offset before it
UTC(zone, tl) ==
  IF tl - zone.before < zone.T THEN tl - zone.before
  ELSE IF tl - zone.after >= zone.T THEN tl - zone.after
  ELSE tl - zone.before

\* d.getDate()
getDate(zone, t) == DateFromTime(LocalTime(zone, t))

\* d.setDate(date)
setDate(zone, t, date) ==
  LET tl == LocalTime(zone, t)
  IN UTC(zone, MakeDate(MakeDay(YearFromTime(tl), MonthFromTime(tl), date), TimeWithinDay(tl)))

\* d.getFullYear()
getFullYear(zone, t) == YearFromTime(LocalTime(zone, t))

\* d.setFullYear(y)
setFullYear(zone, t, y) ==
  LET tl == LocalTime(zone, t)
  IN UTC(zone, MakeDate(MakeDay(y, MonthFromTime(tl), DateFromTime(tl)), TimeWithinDay(tl)))

\* the time value of y-(mo+1)-date T hh:00Z
TimeValue(y, mo, date, hh) == MakeDate(MakeDay(y, mo, date), hh * HourMs)

(***************************************************************************)
(* Program constants                                                       *)
(***************************************************************************)
U_CLEAN == FromInt(2500)
AREA == FromInt(44370)
ENERGY_RATE == Lit(12, 100)
OPERATING_HOURS == FromInt(24)
COAL_PRICE == FromInt(5000)
CO2_FACTOR == Lit(286, 100)
MAINTENANCE_COST_FACTOR == Lit(15, 100)
EFFICIENCY_LOSS_FACTOR == Lit(8, 100)
maxRetries == 3
TrendPoints == 24
lookbackPeriodMs == 24 * HourMs
MIN_RFOUL_THRESHOLD == Lit(1, 10000000)
FactorLow == Lit(8, 10)
FactorHigh == Lit(12, 10)
One == Lit(1, 1)
Timeframes == {"24h", "7d", "30d"}

calculateThermalEfficiency(ufoul, uclean) == FMul(FDiv(ufoul, uclean), FromInt(100))
calculateEnergyLoss(uclean, ufoul, area, lmtd) ==
  FDiv(FMul(FMul(FSub(uclean, ufoul), area), lmtd), FromInt(1000))
calculateDailyCost(energyLoss, energyRate, hours) == FMul(FMul(energyLoss, energyRate), hours)

\* (mutant) the division by 1000 is left out
calculateCoalConsumption_NoScale(energyLoss, hours) ==
  FMul(FMul(energyLoss, hours), Lit(36, 100))

calculateCoalConsumption(energyLoss, hours) ==
  FDiv(FMul(FMul(energyLoss, hours), Lit(36, 100)), FromInt(1000))
calculateCO2Emissions(coalConsumption) == FMul(coalConsumption, CO2_FACTOR)

(***************************************************************************)
(* State                                                                   *)
(***************************************************************************)
VARIABLES
  tz,                        \* the host's time zone: offset `before` up to T, `after` from T
  data,                      \* useState([]): the readings last received
  timeframe,                 \* useState('24h')
  phase,                     \* position of the current run of the processedData memo
  filteredData,              \* locals of the run
  slope,
  currentPeriodRfouls,
  lastYearPeriodRfouls,
  seasonalAdjustmentFactor,
  processedData,             \* the value the memo returned
  currentStats,              \* the value of the currentStats memo
  costBreakdown,             \* the value of the costBreakdown memo
  mounted,                   \* the component: "initial", "mounted" or "unmounted"
  intervals,                 \* the number of auto-refresh interval timers that run
  calls,                     \* the calls of Dashboard.fetchData under way, in start order
  fetchCount,                \* the number of calls of Dashboard.fetchData so far
  writer,                    \* the call whose setData the state shows, 0 for none
  pending,                   \* backend: the requests whose query is under way
  exchanges,                 \* backend: the requests answered, with what was sent
  isLoading,                 \* useState(true)
  error,                     \* useState(null)
  dataSource,                \* useState('database')
  isOnline                   \* useState(true)

dashboardVars == <<mounted, intervals, calls, fetchCount, writer, isLoading, error,
                   dataSource, isOnline>>

serverVars == <<pending, exchanges>>

fetchVars == <<dashboardVars, serverVars>>

vars == <<tz, data, timeframe, phase, filteredData, slope, currentPeriodRfouls,
          lastYearPeriodRfouls, seasonalAdjustmentFactor, processedData,
          currentStats, costBreakdown, fetchVars>>

locals == <<filteredData, slope, currentPeriodRfouls, lastYearPeriodRfouls,
            seasonalAdjustmentFactor>>

(***************************************************************************)
(* The steps of one run of processedData                                   *)
(***************************************************************************)
\* new Date(data[data.length - 1].Timestamp)
now == data[Len(data)].Timestamp

\* (mutant) the '7d' and '30d' branches take each other's day count
filterDate_Swapped(zone, ref, tf) ==
  IF tf = "24h" THEN setDate(zone, ref, getDate(zone, ref) - 1)
  ELSE IF tf = "7d" THEN setDate(zone, ref, getDate(zone, ref) - 30)
  ELSE IF tf = "30d" THEN setDate(zone, ref, getDate(zone, ref) - 7)
  ELSE ref

\* the cut-off of the display timeframe
filterDate(zone, ref, tf) ==
  IF tf = "24h" THEN setDate(zone, ref, getDate(zone, ref) - 1)
  ELSE IF tf = "7d" THEN setDate(zone, ref, getDate(zone, ref) - 7)
  ELSE IF tf = "30d" THEN setDate(zone, ref, getDate(zone, ref) - 30)
  ELSE ref

\* data.filter(d => new Date(d.Timestamp) > filterDate)
TimeframeFilter(zone, d, tf) ==
  LET cut == filterDate(zone, d[Len(d)].Timestamp, tf)
      Keep(r) == r.Timestamp > cut
  IN SelectSeq(d, Keep)

\* a point of the returned series
AnnotatedPoint(point, predicted) ==
  [Timestamp |-> point.Timestamp, Rfoul |-> point.Rfoul, Ufoul |-> point.Ufoul,
   Uclean |-> point.Uclean, LMTD |-> point.LMTD,
   name |-> TimeWithinDay(LocalTime(tz, point.Timestamp)),
   ActualRfoul |-> point.Rfoul,
   PredictedRfoul |-> predicted,
   efficiency |-> calculateThermalEfficiency(point.Ufoul, point.Uclean),
   energyLoss |-> calculateEnergyLoss(point.Uclean, point.Ufoul, AREA, point.LMTD)]

\* (mutant) no early return for a window of fewer than 2 points
Filter_NoSparseBranch ==
  /\ phase = "Filtering"
  /\ IF Len(data) = 0
     THEN /\ processedData' = <<>>
          /\ phase' = "Summarising"
          /\ UNCHANGED filteredData
     ELSE /\ filteredData' = TimeframeFilter(tz, data, timeframe)
          /\ phase' = "TrendFitting"
          /\ UNCHANGED processedData
  /\ UNCHANGED <<tz, data, timeframe, slope, currentPeriodRfouls, lastYearPeriodRfouls,
                 seasonalAdjustmentFactor, currentStats, costBreakdown, fetchVars>>

Filter ==
  /\ phase = "Filtering"
  /\ IF Len(data) = 0
     THEN /\ processedData' = <<>>
          /\ phase' = "Summarising"
          /\ UNCHANGED filteredData
     ELSE /\ filteredData' = TimeframeFilter(tz, data, timeframe)
          /\ phase' = IF Len(filteredData') < 2 THEN "Annotating" ELSE "TrendFitting"
          /\ UNCHANGED processedData
  /\ UNCHANGED <<tz, data, timeframe, slope, currentPeriodRfouls, lastYearPeriodRfouls,
                 seasonalAdjustmentFactor, currentStats, costBreakdown, fetchVars>>

\* (mutant) the first k elements instead of the last k
SliceLast_First(s, k) == SubSeq(s, 1, (IF Len(s) > k THEN k ELSE Len(s)))

\* s.slice(-k)
SliceLast(s, k) == SubSeq(s, (IF Len(s) > k THEN Len(s) - k + 1 ELSE 1), Len(s))

\* trendCalculationData.forEach((point, i) => ...): the four sums once the
\* loop, having visited the points before index acc.i, has visited the rest
RECURSIVE TrendSums(_, _)
TrendSums(pts, acc) ==
  IF acc.i = Len(pts)
  THEN acc
  ELSE TrendSums(pts,
         [i |-> acc.i + 1,
          sumX |-> FAdd(acc.sumX, FromInt(acc.i)),
          sumY |-> FAdd(acc.sumY, pts[acc.i + 1].Rfoul),
          sumXY |-> FAdd(acc.sumXY, FMul(FromInt(acc.i), pts[acc.i + 1].Rfoul)),
          sumX2 |-> FAdd(acc.sumX2, FMul(FromInt(acc.i), FromInt(acc.i)))])

\* let sumX = 0, sumY = 0, sumXY = 0, sumX2 = 0
NoSums == [i |-> 0, sumX |-> Zero, sumY |-> Zero, sumXY |-> Zero, sumX2 |-> Zero]

\* (n * sumXY - sumX * sumY) / (n * sumX2 - sumX * sumX)
SlopeOf(n, sums) ==
  FDiv(FSub(FMul(FromInt(n), sums.sumXY), FMul(sums.sumX, sums.sumY)),
       FSub(FMul(FromInt(n), sums.sumX2), FMul(sums.sumX, sums.sumX)))

TrendSlope(filtered) ==
  LET trendCalculationData == SliceLast(filtered, TrendPoints)
      n == Len(trendCalculationData)
  IN IF n > 1 THEN SlopeOf(n, TrendSums(trendCalculationData, NoSums)) ELSE Zero

\* (mutant) the run has no seasonal step
TrendFit_SkipsSeasonal ==
  /\ phase = "TrendFitting"
  /\ slope' = TrendSlope(filteredData)
  /\ phase' = "Annotating"
  /\ UNCHANGED <<tz, data, timeframe, filteredData, currentPeriodRfouls,
                 lastYearPeriodRfouls, seasonalAdjustmentFactor, processedData,
                 currentStats, costBreakdown, fetchVars>>

TrendFit ==
  /\ phase = "TrendFitting"
  /\ slope' = TrendSlope(filteredData)
  /\ phase' = "SeasonalAdjusting"
  /\ UNCHANGED <<tz, data, timeframe, filteredData, currentPeriodRfouls,
                 lastYearPeriodRfouls, seasonalAdjustmentFactor, processedData,
                 currentStats, costBreakdown, fetchVars>>

\* the Rfoul of the readings of d with lo <= Timestamp <= hi, in order
PeriodRfouls(d, lo, hi) ==
  LET In(r) == r.Timestamp >= lo /\ r.Timestamp <= hi
      sel == SelectSeq(d, In)
  IN [j \in 1..Len(sel) |-> sel[j].Rfoul]

\* vals.reduce((sum, val) => sum + val, 0), having visited acc.index values
RECURSIVE ReduceSum(_, _)
ReduceSum(vals, acc) ==
  IF acc.index = Len(vals)
  THEN acc.sum
  ELSE ReduceSum(vals, [index |-> acc.index + 1, sum |-> FAdd(acc.sum, vals[acc.index + 1])])

Average(vals) ==
  IF Len(vals) > 0
  THEN FDiv(ReduceSum(vals, [index |-> 0, sum |-> Zero]), FromInt(Len(vals)))
  ELSE Zero

\* (mutant) only a last-year average below the threshold disables the factor
SeasonalFactor_LastYearOnly(avgCurrentRfoulForSeason, avgLastYearRfoulForSeason) ==
  IF FGe(avgLastYearRfoulForSeason, MIN_RFOUL_THRESHOLD)
  THEN LET rawFactor == FDiv(avgCurrentRfoulForSeason, avgLastYearRfoulForSeason)
       IN MathMax(FactorLow, MathMin(FactorHigh, rawFactor))
  ELSE One

SeasonalFactor(avgCurrentRfoulForSeason, avgLastYearRfoulForSeason) ==
  IF /\ FGt(avgLastYearRfoulForSeason, MIN_RFOUL_THRESHOLD)
     /\ FGt(avgCurrentRfoulForSeason, MIN_RFOUL_THRESHOLD)
  THEN LET rawFactor == FDiv(avgCurrentRfoulForSeason, avgLastYearRfoulForSeason)
       IN MathMax(FactorLow, MathMin(FactorHigh, rawFactor))
  ELSE One

\* (mutant) the two windows are cut out of the filtered readings
SeasonalAdjust_Filtered ==
  /\ phase = "SeasonalAdjusting"
  /\ LET currentLookbackStart == now - lookbackPeriodMs
         lastYearLookbackStart ==
           setFullYear(tz, currentLookbackStart, getFullYear(tz, currentLookbackStart) - 1)
         lastYearLookbackEnd == setFullYear(tz, now, getFullYear(tz, now) - 1)
     IN /\ currentPeriodRfouls' = PeriodRfouls(filteredData, currentLookbackStart, now)
        /\ lastYearPeriodRfouls' =
             PeriodRfouls(filteredData, lastYearLookbackStart, lastYearLookbackEnd)
  /\ seasonalAdjustmentFactor' =
       SeasonalFactor(Average(currentPeriodRfouls'), Average(lastYearPeriodRfouls'))
  /\ phase' = "Annotating"
  /\ UNCHANGED <<tz, data, timeframe, filteredData, slope, processedData,
                 currentStats, costBreakdown, fetchVars>>

SeasonalAdjust ==
  /\ phase = "SeasonalAdjusting"
  /\ LET currentLookbackStart == now - lookbackPeriodMs
         lastYearLookbackStart ==
           setFullYear(tz, currentLookbackStart, getFullYear(tz, currentLookbackStart) - 1)
         lastYearLookbackEnd == setFullYear(tz, now, getFullYear(tz, now) - 1)
     IN /\ currentPeriodRfouls' = PeriodRfouls(data, currentLookbackStart, now)
        /\ lastYearPeriodRfouls' =
             PeriodRfouls(data, lastYearLookbackStart, lastYearLookbackEnd)
  /\ seasonalAdjustmentFactor' =
       SeasonalFactor(Average(currentPeriodRfouls'), Average(lastYearPeriodRfouls'))
  /\ phase' = "Annotating"
  /\ UNCHANGED <<tz, data, timeframe, filteredData, slope, processedData,
                 currentStats, costBreakdown, fetchVars>>

\* (mutant) the trend is added to the point itself, not to the one before it
Predict_NoPrev(filtered, index, sl, factor) ==
  MathMax(FMul(FAdd(filtered[index].Rfoul, sl), factor), Zero)

\* the prediction of the point at index (1-based) of the filtered series
Predict(filtered, index, sl, factor) ==
  LET prevPoint == IF index > 1 THEN filtered[index - 1] ELSE filtered[index]
  IN MathMax(FMul(FAdd(prevPoint.Rfoul, sl), factor), Zero)

\* (mutant) the annotations are written into the points of the input
Annotate_InPlace ==
  /\ phase = "Annotating"
  /\ processedData' =
       [j \in 1..Len(filteredData) |->
          AnnotatedPoint(filteredData[j],
                         Predict(filteredData, j, slope, seasonalAdjustmentFactor))]
  /\ data' =
       [j \in 1..Len(data) |->
          IF \E i \in 1..Len(filteredData) : filteredData[i] = data[j]
          THEN AnnotatedPoint(data[j], data[j].Rfoul)
          ELSE data[j]]
  /\ phase' = "Summarising"
  /\ UNCHANGED <<tz, timeframe, filteredData, slope, currentPeriodRfouls,
                 lastYearPeriodRfouls, seasonalAdjustmentFactor, currentStats,
                 costBreakdown, fetchVars>>

Annotate ==
  /\ phase = "Annotating"
  /\ processedData' =
       IF Len(filteredData) < 2
       THEN [j \in 1..Len(filteredData) |->
               AnnotatedPoint(filteredData[j], filteredData[j].Rfoul)]
       ELSE [j \in 1..Len(filteredData) |->
               AnnotatedPoint(filteredData[j],
                              Predict(filteredData, j, slope, seasonalAdjustmentFactor))]
  /\ phase' = "Summarising"
  /\ UNCHANGED <<tz, data, timeframe, filteredData, slope, currentPeriodRfouls,
                 lastYearPeriodRfouls, seasonalAdjustmentFactor, currentStats,
                 costBreakdown, fetchVars>>

(***************************************************************************)
(* The older variant of the memo (part_000)                                *)
(***************************************************************************)
\* (mutant) the prediction is not kept from going below zero
part000_predictedRfoul_Unclamped(filtered, index, sl) ==
  LET prevPoint == IF index > 1 THEN filtered[index - 1] ELSE filtered[index]
  IN FAdd(prevPoint.Rfoul, sl)

\* Math.max(prevPoint.Rfoul + slope, 0) for the point at index (1-based)
part000_predictedRfoul(filtered, index, sl) ==
  LET prevPoint == IF index > 1 THEN filtered[index - 1] ELSE filtered[index]
  IN MathMax(FAdd(prevPoint.Rfoul, sl), Zero)

\* the value of the processedData memo of part_000: no series for fewer than
\* 2 readings, the bare readings for fewer than 2 in the window
part000_processedData(zone, d, tf) ==
  IF Len(d) < 2 THEN <<>>
  ELSE LET filtered == TimeframeFilter(zone, d, tf)
           sl == TrendSlope(filtered)
       IN IF Len(filtered) < 2 THEN filtered
          ELSE [j \in 1..Len(filtered) |->
                  AnnotatedPoint(filtered[j], part000_predictedRfoul(filtered, j, sl))]

(***************************************************************************)
(* The currentStats and costBreakdown memos                                *)
(***************************************************************************)
\* null
NoStats == [null |-> TRUE]

\* (mutant) a value equal to its threshold raises the alert too
alerts_Inclusive(lastPoint, efficiency, dailyCost, co2Emissions) ==
  (IF FGe(lastPoint.Rfoul, Lit(76, 100000)) THEN <<"CRITICAL">> ELSE <<>>)
    \o (IF FLe(efficiency, FromInt(75)) THEN <<"PERFORMANCE">> ELSE <<>>)
    \o (IF FGe(dailyCost, FromInt(5000)) THEN <<"COST">> ELSE <<>>)
    \o (IF FGe(co2Emissions, FromInt(50000)) THEN <<"ENVIRONMENTAL">> ELSE <<>>)

\* the alerts pushed for the last point, each by the label its text starts with
alerts(lastPoint, efficiency, dailyCost, co2Emissions) ==
  (IF FGt(lastPoint.Rfoul, Lit(76, 100000)) THEN <<"CRITICAL">> ELSE <<>>)
    \o (IF FLt(efficiency, FromInt(75)) THEN <<"PERFORMANCE">> ELSE <<>>)
    \o (IF FGt(dailyCost, FromInt(5000)) THEN <<"COST">> ELSE <<>>)
    \o (IF FGt(co2Emissions, FromInt(50000)) THEN <<"ENVIRONMENTAL">> ELSE <<>>)

\* the value of the currentStats memo for the series pd
CurrentStats(pd) ==
  IF Len(pd) = 0 THEN NoStats
  ELSE LET lastPoint == pd[Len(pd)]
           efficiency == calculateThermalEfficiency(lastPoint.Ufoul, lastPoint.Uclean)
           energyLoss ==
             calculateEnergyLoss(lastPoint.Uclean, lastPoint.Ufoul, AREA, lastPoint.LMTD)
           dailyCost == calculateDailyCost(energyLoss, ENERGY_RATE, OPERATING_HOURS)
           coalConsumption == calculateCoalConsumption(energyLoss, OPERATING_HOURS)
           co2Emissions == calculateCO2Emissions(coalConsumption)
           maintenanceCost == FMul(dailyCost, MAINTENANCE_COST_FACTOR)
           efficiencyLossCost == FMul(dailyCost, EFFICIENCY_LOSS_FACTOR)
           environmentalCost == FMul(FMul(coalConsumption, COAL_PRICE), Lit(2, 100))
           totalDailyCost ==
             FAdd(FAdd(FAdd(dailyCost, maintenanceCost), efficiencyLossCost),
                  environmentalCost)
       IN [Timestamp |-> lastPoint.Timestamp, Rfoul |-> lastPoint.Rfoul,
           Ufoul |-> lastPoint.Ufoul, Uclean |-> lastPoint.Uclean,
           LMTD |-> lastPoint.LMTD, name |-> lastPoint.name,
           ActualRfoul |-> lastPoint.ActualRfoul,
           PredictedRfoul |-> lastPoint.PredictedRfoul,
           energyLoss |-> lastPoint.energyLoss,
           efficiency |-> efficiency,
           totalDailyCost |-> totalDailyCost,
           co2Emissions |-> co2Emissions,
           alerts |-> alerts(lastPoint, efficiency, dailyCost, co2Emissions),
           dailyCost |-> dailyCost,
           maintenanceCost |-> maintenanceCost,
           efficiencyLossCost |-> efficiencyLossCost,
           environmentalCost |-> environmentalCost]

\* (mutant) no guard for a missing latest point: its costs are read as
\* undefined
CostBreakdown_NoGuard(stats) ==
  LET st == IF stats = NoStats
            THEN [dailyCost |-> NaN, maintenanceCost |-> NaN,
                  efficiencyLossCost |-> NaN, environmentalCost |-> NaN]
            ELSE stats
  IN <<[name |-> "Energy Loss", value |-> st.dailyCost],
       [name |-> "Maintenance", value |-> st.maintenanceCost],
       [name |-> "Efficiency Loss", value |-> st.efficiencyLossCost],
       [name |-> "Environmental", value |-> st.environmentalCost]>>

\* the value of the costBreakdown memo
CostBreakdown(stats) ==
  IF stats = NoStats THEN <<>>
  ELSE <<[name |-> "Energy Loss", value |-> stats.dailyCost],
         [name |-> "Maintenance", value |-> stats.maintenanceCost],
         [name |-> "Efficiency Loss", value |-> stats.efficiencyLossCost],
         [name |-> "Environmental", value |-> stats.environmentalCost]>>

Summarise ==
  /\ phase = "Summarising"
  /\ currentStats' = CurrentStats(processedData)
  /\ costBreakdown' = CostBreakdown(currentStats')
  /\ phase' = "Done"
  /\ UNCHANGED <<tz, data, timeframe, filteredData, slope, currentPeriodRfouls,
                 lastYearPeriodRfouls, seasonalAdjustmentFactor, processedData,
                 fetchVars>>

(***************************************************************************)
(* The inputs the model draws from                                         *)
(***************************************************************************)
\* the time of the latest reading of most inputs: 2025-03-09T18:00Z
N0 == TimeValue(2025, 2, 9, 18)

\* a host without offset changes, one whose clocks go forward an hour eleven
\* hours before N0, and one whose clocks go back an hour then
ZoneFixed == [T |-> 0, before |-> 0, after |-> 0]
ZoneForward == [T |-> N0 - 11 * HourMs, before |-> -5 * HourMs, after |-> -4 * HourMs]
ZoneBack == [T |-> N0 - 11 * HourMs, before |-> -4 * HourMs, after |-> -5 * HourMs]
TimeZones == {ZoneFixed, ZoneForward, ZoneBack}

\* a reading as the API delivers it (the fields the pipeline reads)
Rd(t, rf) ==
  [Timestamp |-> t, Rfoul |-> rf, Ufoul |-> FromInt(2300), Uclean |-> FromInt(2500),
   LMTD |-> FromInt(14)]

\* the Number a JSON text num/den denotes
Dec(num, den) == IF num >= 0 THEN Lit(num, den) ELSE FNeg(Lit(-num, den))

SeqsUpTo(S, n) == UNION {[1..k -> S] : k \in 0..n}

\* readings around the three cut-offs, in any order
MaxFilterLen == 2
FilterOffsets == {0, 23, 24, 25, 168, 720}
FilterInputs ==
  SeqsUpTo({Rd(N0 - h * HourMs, Dec(25, 1000000)) : h \in FilterOffsets}, MaxFilterLen)

\* three readings, one in each timeframe's window only, in each of their six orders
PermInputs ==
  LET three == <<Rd(N0 - 200 * HourMs, Dec(27, 1000000)), Rd(N0 - 30 * HourMs, Dec(1, 10000)),
                 Rd(N0, Dec(25, 1000000))>>
  IN {[j \in 1..3 |-> three[f[j]]] : f \in {g \in [1..3 -> 1..3] : {g[1], g[2], g[3]} = 1..3}}

\* a single reading in the window, alone or after an old one
SparseVals == {Zero, Dec(25, 1000000), Dec(-1, 100000)}
SparseInputs ==
  {<<Rd(N0, v)>> : v \in SparseVals}
    \cup {<<Rd(N0 - 800 * HourMs, w), Rd(N0, v)>> : v \in SparseVals, w \in SparseVals}

\* one or two readings a year back, two current ones
SeasonVals ==
  {Zero, Dec(5, 100000000), Dec(1, 10000000), Dec(25, 1000000), Dec(27, 1000000),
   Dec(1, 10000), Dec(-1, 100000)}
LastYear0 == N0 - 365 * msPerDay
SeasonalInputs ==
  {<<Rd(LastYear0 - 12 * HourMs, a), Rd(N0 - HourMs, b), Rd(N0, c)>> :
      a \in SeasonVals, b \in SeasonVals, c \in {Zero, Dec(25, 1000000)}}
    \cup {<<Rd(LastYear0 + o * HourMs, Dec(1, 10000)), Rd(N0 - HourMs, Dec(25, 1000000)),
            Rd(N0, Dec(25, 1000000))>> : o \in {-26, -25, -24, -23, -1, 0, 1}}
    \cup {<<Rd(LastYear0 - 12 * HourMs, a1), Rd(LastYear0 - 6 * HourMs, a2),
            Rd(N0 - HourMs, Dec(27, 1000000)),
            Rd(N0, Dec(25, 1000000))>> :
            a1 \in {Dec(25, 1000000), Dec(1, 10000)}, a2 \in {Zero, Dec(27, 1000000)}}

\* hourly series ending at N0: a ramp whose i-th value (from 0) is (A + B*i)/D,
\* and a series that goes up and down
Ramp(n, A, B, D) ==
  [j \in 1..n |-> Rd(N0 - (n - j) * HourMs, Dec(A + B * (j - 1), D))]
Wave(n) ==
  [j \in 1..n |-> Rd(N0 - (n - j) * HourMs, Dec(20 + ((j * j) % 7), 1000000))]
RampLens == {2, 3, 10, 24, 25, 30, 48}
TrendInputs ==
  {Ramp(n, 25, 0, 1000000) : n \in RampLens}
    \cup {Ramp(n, 1, 0, 10) : n \in RampLens}
    \cup {Ramp(n, 940, 20, 47000000) : n \in RampLens}
    \cup {Ramp(n, 64, 1, 1048576) : n \in RampLens}
    \cup {Ramp(n, 50, -3, 1000000) : n \in RampLens}
    \cup {Wave(n) : n \in RampLens}

\* a reading a year back, then a falling series that ends below zero
SeasonalRampInputs ==
  {<<Rd(LastYear0 - 12 * HourMs, a)>> \o Ramp(n, 50, -12, 1000000) :
      a \in {Dec(18, 1000000), Dec(1, 10000)}, n \in {6, 7}}

\* a reading with all the fields the memos read
Reading(t, rf, ufoul, uclean, lmtd) ==
  [Timestamp |-> t, Rfoul |-> rf, Ufoul |-> ufoul, Uclean |-> uclean, LMTD |-> lmtd]

\* two readings, the last one around the thresholds of the alert rules
AlertRfouls == {Dec(25, 1000000), Dec(3, 10000), Dec(76, 100000), Dec(1, 1000)}
AlertUfouls == {2499, 2300, 1875, 1800}
AlertLMTDs == {14, 100}
AlertInputs ==
  {<<Rd(N0 - HourMs, Dec(25, 1000000)),
     Reading(N0, rf, FromInt(uf), FromInt(2500), FromInt(lm))>> :
      rf \in AlertRfouls, uf \in AlertUfouls, lm \in AlertLMTDs}

\* readings whose Uclean is 0
ZeroUcleanInputs ==
  {<<Reading(N0, Dec(25, 1000000), FromInt(uf), Zero, FromInt(14))>> : uf \in {0, 2300}}
    \cup {<<Rd(N0 - HourMs, Dec(25, 1000000)),
            Reading(N0, Dec(25, 1000000), FromInt(2300), Zero, FromInt(14))>>}

\* readings of which the database row lacks a numeric field: the server's
\* parseFloat gives NaN, which its JSON text carries as null
MalformedInputs ==
  {<<Reading(N0, Null, FromInt(2300), FromInt(2500), FromInt(14))>>,
   <<Rd(N0 - 2 * HourMs, Dec(25, 1000000)),
     Reading(N0 - HourMs, Null, FromInt(2300), FromInt(2500), FromInt(14)),
     Rd(N0, Dec(27, 1000000))>>,
   <<Rd(N0 - HourMs, Dec(25, 1000000)),
     Reading(N0, Dec(27, 1000000), Null, FromInt(2500), Null)>>,
   <<Rd(N0 - HourMs, Dec(25, 1000000)),
     Reading(N0, Dec(27, 1000000), FromInt(2300), Null, FromInt(14))>>}

\* readings so large that their sums are out of the range of a Number
HugeInputs ==
  {<<Rd(N0 - HourMs, MAX_VALUE), Rd(N0, MAX_VALUE)>>,
   <<Rd(LastYear0 - 2 * HourMs, MAX_VALUE), Rd(LastYear0 - HourMs, MAX_VALUE),
     Rd(N0 - HourMs, MAX_VALUE), Rd(N0, MAX_VALUE)>>}

Inputs ==
  SeasonalRampInputs \cup FilterInputs \cup PermInputs \cup SparseInputs
    \cup SeasonalInputs \cup TrendInputs \cup AlertInputs \cup ZeroUcleanInputs
    \cup MalformedInputs \cup HugeInputs

(***************************************************************************)
(* Specification                                                           *)
(***************************************************************************)
Init ==
  /\ tz \in TimeZones
  /\ data = <<>>
  /\ timeframe = "24h"
  /\ phase = "Filtering"
  /\ filteredData = <<>>
  /\ slope = Zero
  /\ currentPeriodRfouls = <<>>
  /\ lastYearPeriodRfouls = <<>>
  /\ seasonalAdjustmentFactor = One
  /\ processedData = <<>>
  /\ currentStats = NoStats
  /\ costBreakdown = <<>>
  /\ mounted = "initial"
  /\ intervals = 0
  /\ calls = <<>>
  /\ fetchCount = 0
  /\ writer = 0
  /\ pending = <<>>
  /\ exchanges = <<>>
  /\ isLoading = TRUE
  /\ error = "null"
  /\ dataSource = "database"
  /\ isOnline = TRUE

\* a state change re-renders the component, which runs the memo again
StartRun ==
  /\ phase' = "Filtering"
  /\ filteredData' = <<>>
  /\ slope' = Zero
  /\ currentPeriodRfouls' = <<>>
  /\ lastYearPeriodRfouls' = <<>>
  /\ seasonalAdjustmentFactor' = One
  /\ processedData' = <<>>
  /\ currentStats' = NoStats
  /\ costBreakdown' = <<>>

\* setData(dbData) / setData(mockData)
SetData(d) ==
  /\ phase = "Done"
  /\ Len(d) > 0
  /\ data' = d
  /\ StartRun
  /\ UNCHANGED <<tz, timeframe, fetchVars>>

\* (mutant) the memo does not depend on the timeframe and keeps what its
\* last run returned
SetTimeframe_NoRerun(tf) ==
  /\ phase = "Done"
  /\ tf # timeframe
  /\ timeframe' = tf
  /\ UNCHANGED <<tz, data, phase, locals, processedData, currentStats, costBreakdown,
                 fetchVars>>

\* onChange of the timeframe selector
SetTimeframe(tf) ==
  /\ phase = "Done"
  /\ tf # timeframe
  /\ timeframe' = tf
  /\ StartRun
  /\ UNCHANGED <<tz, data, fetchVars>>

Next ==
  \/ \E d \in Inputs : SetData(d)
  \/ \E tf \in Timeframes : SetTimeframe(tf)
  \/ Filter
  \/ TrendFit
  \/ SeasonalAdjust
  \/ Annotate
  \/ Summarise

Spec == Init /\ [][Next]_vars

\* a run of the memos is synchronous code: once started it is carried on,
\* statement after statement, to its return
Phases ==
  {"Filtering", "TrendFitting", "SeasonalAdjusting", "Annotating", "Summarising", "Done"}
Advance == phase # "Done" /\ phase' \in Phases \ {phase}
LiveSpec == Spec /\ WF_phase(Advance)

(***************************************************************************)
(* The backend: GET /api/heat-exchanger-data                               *)
(***************************************************************************)
\* a column the pivot left out of a row
undefined == [k |-> "undefined"]

\* parseFloat of a column of a row: the number, NaN for a missing column
parseFloat(v) == IF v = undefined THEN NaN ELSE v

\* JSON.stringify of a number, read back by JSON.parse: NaN and the
\* infinities are written as null
stringify(v) == IF v.k \in {"nan", "inf"} THEN Null ELSE v

\* data.push({...}) for one row, with the fields the memos read
record(row) ==
  [Timestamp |-> row._time,
   LMTD |-> parseFloat(row.LMTD),
   Ufoul |-> parseFloat(row.Ufoul),
   Uclean |-> parseFloat(row.Uclean),
   Rfoul |-> parseFloat(row.Rfoul)]

\* the array as the client reads it from the body of res.json(data)
json(d) ==
  [j \in 1..Len(d) |->
     [Timestamp |-> d[j].Timestamp,
      LMTD |-> stringify(d[j].LMTD),
      Ufoul |-> stringify(d[j].Ufoul),
      Uclean |-> stringify(d[j].Uclean),
      Rfoul |-> stringify(d[j].Rfoul)]]

\* the row of a reading, a null of the reading being a column left out
RowOf(reading) ==
  LET col(v) == IF v = Null THEN undefined ELSE v
  IN [_time |-> reading.Timestamp,
      LMTD |-> col(reading.LMTD),
      Ufoul |-> col(reading.Ufoul),
      Uclean |-> col(reading.Uclean),
      Rfoul |-> col(reading.Rfoul)]

\* what queryApi.collectRows may resolve with
QueryRows ==
  {[j \in 1..Len(d) |-> RowOf(d[j])] :
     d \in {<<>>, Ramp(3, 25, 1, 1000000),
            <<Reading(N0, Null, FromInt(2300), FromInt(2500), FromInt(14))>>}}

\* what queryApi.collectRows may reject with: an HttpError of the database,
\* an error without statusCode, an error with statusCode and no json
QueryErrors ==
  {[statusCode |-> 401, json |-> TRUE],
   [statusCode |-> 0, json |-> FALSE],
   [statusCode |-> 503, json |-> FALSE]}

QueryResults ==
  {[resolved |-> TRUE, rows |-> rows, error |-> [statusCode |-> 0, json |-> FALSE]] :
     rows \in QueryRows}
    \cup {[resolved |-> FALSE, rows |-> <<>>, error |-> e] : e \in QueryErrors}

\* the query parameter the client sends; the server also answers a request
\* without it
Requests == {[timeframe |-> tf] : tf \in Timeframes \cup {"undefined"}}

\* (mutant) the handler cuts the rows down to the timeframe: one row for '24h'
handler_ByTimeframe(req, result) ==
  IF result.resolved
  THEN <<[status |-> 200, kind |-> "array",
          array |-> json([j \in 1..(IF req.timeframe = "24h" /\ Len(result.rows) > 1
                                    THEN 1 ELSE Len(result.rows))
                            |-> record(result.rows[j])]),
          message |-> ""]>>
  ELSE IF result.error.statusCode # 0 /\ result.error.json
  THEN <<[status |-> result.error.statusCode, kind |-> "object", array |-> <<>>,
          message |-> "Failed to query the database."]>>
  ELSE <<[status |-> 500, kind |-> "object", array |-> <<>>,
          message |-> "An unexpected error occurred on the server."]>>

\* the handler of the route: the responses it writes for a request, given
\* what the query comes back with
handler(req, result) ==
  IF result.resolved
  THEN <<[status |-> 200, kind |-> "array",
          array |-> json([j \in 1..Len(result.rows) |-> record(result.rows[j])]),
          message |-> ""]>>
  ELSE IF result.error.statusCode # 0 /\ result.error.json
  THEN <<[status |-> result.error.statusCode, kind |-> "object", array |-> <<>>,
          message |-> "Failed to query the database."]>>
  ELSE <<[status |-> 500, kind |-> "object", array |-> <<>>,
          message |-> "An unexpected error occurred on the server."]>>

\* the number of requests the server is followed for
MaxRequests == 2

\* a GET of the route arrives: the handler runs up to the await of the query
Receive(req) ==
  /\ Len(pending) + Len(exchanges) < MaxRequests
  /\ pending' = Append(pending, req)
  /\ UNCHANGED <<tz, data, timeframe, phase, locals, processedData, currentStats,
                 costBreakdown, dashboardVars, exchanges>>

\* the query of the i-th waiting request comes back and the handler answers
Respond(i, result) ==
  /\ i \in 1..Len(pending)
  /\ exchanges' = Append(exchanges, [req |-> pending[i], result |-> result,
                                     sent |-> handler(pending[i], result)])
  /\ pending' = [j \in 1..(Len(pending) - 1) |-> IF j < i THEN pending[j] ELSE pending[j + 1]]
  /\ UNCHANGED <<tz, data, timeframe, phase, locals, processedData, currentStats,
                 costBreakdown, dashboardVars>>

ServerNext ==
  \/ \E req \in Requests : Receive(req)
  \/ \E i \in 1..MaxRequests, result \in QueryResults : Respond(i, result)

ServerSpec == Init /\ [][ServerNext]_vars

(***************************************************************************)
(* Fetching: Dashboard.fetchData over DatabaseService.fetchData            *)
(***************************************************************************)
\* currentTimestamp += 30 * 60 * 1000
MockStepMs == 1

\* the number of readings generateMockData is followed for
MockLen == 2

\* values of Math.random(), one record for the three draws of a reading that
\* the memos read
MockDraws ==
  {[LMTD |-> Zero, Ufoul |-> Zero, Rfoul |-> Zero],
   [LMTD |-> Lit(1, 2), Ufoul |-> Lit(3, 4), Rfoul |-> Lit(1, 4)]}

\* (mutant) the generator pushes nothing
generateMockData_Empty(wallNow, random) == <<>>

\* generateMockData(): the last MockLen readings of the series, which starts
\* a year and a half before the call and advances by 30 minutes up to the
\* time of the call; wallNow is the time of the last reading pushed, and
\* random[j] are the draws of the j-th reading
generateMockData(wallNow, random) ==
  [j \in 1..MockLen |->
     [Timestamp |-> wallNow - (MockLen - j) * MockStepMs,
      LMTD |-> FAdd(FromInt(14), FMul(random[j].LMTD, FromInt(2))),
      Ufoul |-> FAdd(FromInt(2300), FMul(random[j].Ufoul, FromInt(100))),
      Uclean |-> U_CLEAN,
      Rfoul |-> FAdd(Lit(25, 1000000), FMul(random[j].Rfoul, Lit(5, 1000000)))]]

\* the times a fallback may happen at
WallClocks == {N0, N0 + 3 * MockStepMs}

\* the draws of one call of generateMockData: the same for every reading, or
\* the two in turn
MockRandoms ==
  {[j \in 1..MockLen |-> d] : d \in MockDraws}
    \cup {[j \in 1..MockLen |->
             IF j % 2 = 1 THEN [LMTD |-> Zero, Ufoul |-> Zero, Rfoul |-> Zero]
             ELSE [LMTD |-> Lit(1, 2), Ufoul |-> Lit(3, 4), Rfoul |-> Lit(1, 4)]]}

\* the number of calls of Dashboard.fetchData that are followed
MaxFetches == 2

\* what may answer a request: the handler of the backend, or something in
\* front of it that sends a JSON object or a page that is no JSON
Responses ==
  {handler(req, result)[1] : req \in Requests, result \in QueryResults}
    \cup {[status |-> 200, kind |-> "object", array |-> <<>>, message |-> ""],
          [status |-> 200, kind |-> "text", array |-> <<>>, message |-> ""]}

\* response.ok
ok(response) == response.status >= 200 /\ response.status <= 299

\* the state of a call of Dashboard.fetchData that has just started: its
\* first request is out and the abort timer of the request is armed
NewCall(n) ==
  [id |-> n, stage |-> "request", retries |-> 0, timer |-> TRUE, ok |-> FALSE,
   delay |-> 0, error |-> "none", data |-> <<>>]

\* the continuation of a settled promise runs before any other callback
NoMicrotask ==
  \A i \in 1..Len(calls) : calls[i].stage \notin {"resolved", "rejected"}

\* a callback of the component can run: no render is under way
Ready == phase = "Done" /\ NoMicrotask

\* fetchData() up to its first await: setIsLoading(true), setError(null) and
\* the first request of DatabaseService.fetchData
fetchData ==
  /\ fetchCount < MaxFetches
  /\ isLoading' = TRUE
  /\ error' = "null"
  /\ fetchCount' = fetchCount + 1
  /\ calls' = Append(calls, NewCall(fetchCount + 1))

\* (mutant) the cleanup of the effect leaves the timer running
clearInterval_Leaves(n) == n

\* clearInterval(interval), on the number of interval timers that run
clearInterval(n) == n - 1

\* setInterval(fetchData, DB_CONFIG.refreshInterval)
setInterval(n) == n + 1

\* the effect of the first render
Mount ==
  /\ Ready
  /\ mounted = "initial"
  /\ mounted' = "mounted"
  /\ fetchData
  /\ intervals' = setInterval(intervals)
  /\ UNCHANGED <<tz, data, timeframe, phase, locals, processedData, currentStats,
                 costBreakdown, writer, dataSource, isOnline, serverVars>>

\* onChange of the timeframe selector, the render it causes, the cleanup of
\* the effect of the last render and the effect of this one
ChangeTimeframe(tf) ==
  /\ Ready
  /\ mounted = "mounted"
  /\ tf # timeframe
  /\ timeframe' = tf
  /\ StartRun
  /\ fetchData
  /\ intervals' = setInterval(clearInterval(intervals))
  /\ UNCHANGED <<tz, data, mounted, writer, dataSource, isOnline, serverVars>>

\* the component is removed: the cleanup of the effect
Unmount ==
  /\ Ready
  /\ mounted = "mounted"
  /\ mounted' = "unmounted"
  /\ intervals' = clearInterval(intervals)
  /\ UNCHANGED <<tz, data, timeframe, phase, locals, processedData, currentStats,
                 costBreakdown, calls, fetchCount, writer, isLoading, error,
                 dataSource, isOnline, serverVars>>

\* an interval timer fires
IntervalFires ==
  /\ Ready
  /\ intervals > 0
  /\ fetchData
  /\ UNCHANGED <<tz, data, timeframe, phase, locals, processedData, currentStats,
                 costBreakdown, mounted, intervals, writer, dataSource, isOnline,
                 serverVars>>

\* handleRefresh: the Refresh button
handleRefresh ==
  /\ Ready
  /\ mounted = "mounted"
  /\ fetchData
  /\ UNCHANGED <<tz, data, timeframe, phase, locals, processedData, currentStats,
                 costBreakdown, mounted, intervals, writer, dataSource, isOnline,
                 serverVars>>

\* (mutant) the catch block gives up after the first retry
Catch_OneRetry(call, err) ==
  IF call.retries < 1
  THEN [call EXCEPT !.stage = "delay", !.timer = FALSE, !.ok = FALSE, !.error = err,
                    !.delay = (2 ^ call.retries) * 1000]
  ELSE [call EXCEPT !.stage = "rejected", !.timer = FALSE, !.ok = FALSE, !.error = err]

\* the catch block of DatabaseService.fetchData: wait and retry, or throw
\* the error of this attempt
Catch(call, err) ==
  IF call.retries < maxRetries
  THEN [call EXCEPT !.stage = "delay", !.timer = FALSE, !.ok = FALSE, !.error = err,
                    !.delay = (2 ^ call.retries) * 1000]
  ELSE [call EXCEPT !.stage = "rejected", !.timer = FALSE, !.ok = FALSE, !.error = err]

\* a step of the i-th call that changes nothing but the call
CallStep(i, call) ==
  /\ calls' = [calls EXCEPT ![i] = call]
  /\ UNCHANGED <<tz, data, timeframe, phase, locals, processedData, currentStats,
                 costBreakdown, mounted, intervals, fetchCount, writer, isLoading,
                 error, dataSource, isOnline, serverVars>>

\* the headers of a response arrive: fetch resolves and clearTimeout(timeoutId)
\* disarms the abort timer before the body is read
HeadersArrive(i, response) ==
  /\ Ready
  /\ i \in 1..Len(calls)
  /\ calls[i].stage = "request"
  /\ CallStep(i, [calls[i] EXCEPT !.stage = "body", !.timer = FALSE, !.ok = ok(response)])

\* the request fails before any response: fetch rejects with a TypeError
NetworkError(i) ==
  /\ Ready
  /\ i \in 1..Len(calls)
  /\ calls[i].stage = "request"
  /\ CallStep(i, Catch(calls[i], "TypeError"))

\* the abort timer fires after DB_CONFIG.timeout: controller.abort() rejects
\* the fetch
AbortFires(i) ==
  /\ Ready
  /\ i \in 1..Len(calls)
  /\ calls[i].stage \in {"request", "body"}
  /\ calls[i].timer
  /\ CallStep(i, Catch(calls[i], "AbortError"))

\* the body of the response has been read: response.text() of a response
\* that is not ok, response.json() of one that is
BodyArrives(i, response) ==
  /\ Ready
  /\ i \in 1..Len(calls)
  /\ calls[i].stage = "body"
  /\ ok(response) = calls[i].ok
  /\ CallStep(i,
       IF ~ok(response) THEN Catch(calls[i], "HTTP")
       ELSE IF response.kind = "text" THEN Catch(calls[i], "SyntaxError")
       ELSE IF response.kind # "array" THEN Catch(calls[i], "Invalid data format")
       ELSE IF Len(response.array) = 0 THEN Catch(calls[i], "No data available")
       ELSE [calls[i] EXCEPT !.stage = "resolved", !.ok = FALSE, !.data = response.array])

\* the timer of the retry delay fires: this.fetchData(timeframe, retries + 1)
DelayFires(i) ==
  /\ Ready
  /\ i \in 1..Len(calls)
  /\ calls[i].stage = "delay"
  /\ CallStep(i, [calls[i] EXCEPT !.stage = "request", !.retries = calls[i].retries + 1,
                                  !.timer = TRUE, !.delay = 0, !.error = "none"])

\* the calls without the i-th
Settled(i) ==
  [j \in 1..(Len(calls) - 1) |-> IF j < i THEN calls[j] ELSE calls[j + 1]]

\* Dashboard.fetchData after its await, once DatabaseService.fetchData has
\* settled: the try block or the catch block, then the finally block; the
\* setters of a component that was removed change nothing
Continue(i) ==
  /\ phase = "Done"
  /\ i \in 1..Len(calls)
  /\ calls[i].stage \in {"resolved", "rejected"}
  /\ calls' = Settled(i)
  /\ UNCHANGED <<tz, timeframe, mounted, intervals, fetchCount, serverVars>>
  /\ IF mounted = "unmounted"
     THEN UNCHANGED <<data, phase, locals, processedData, currentStats, costBreakdown,
                      writer, isLoading, error, dataSource, isOnline>>
     ELSE /\ writer' = calls[i].id
          /\ isLoading' = FALSE
          /\ StartRun
          /\ IF calls[i].stage = "resolved"
             THEN /\ data' = calls[i].data
                  /\ dataSource' = "Database"
                  /\ isOnline' = TRUE
                  /\ UNCHANGED error
             ELSE /\ \E wallNow \in WallClocks, random \in MockRandoms :
                       data' = generateMockData(wallNow, random)
                  /\ dataSource' = "Mock Data (Database Unavailable)"
                  /\ isOnline' = FALSE
                  /\ error' = "Using simulated data - database connection failed"

FetchNext ==
  \/ Mount
  \/ \E tf \in Timeframes : ChangeTimeframe(tf)
  \/ Unmount
  \/ IntervalFires
  \/ handleRefresh
  \/ \E i \in 1..MaxFetches, response \in Responses : HeadersArrive(i, response)
  \/ \E i \in 1..MaxFetches : NetworkError(i)
  \/ \E i \in 1..MaxFetches : AbortFires(i)
  \/ \E i \in 1..MaxFetches, response \in Responses : BodyArrives(i, response)
  \/ \E i \in 1..MaxFetches : DelayFires(i)
  \/ \E i \in 1..MaxFetches : Continue(i)
  \/ Filter
  \/ TrendFit
  \/ SeasonalAdjust
  \/ Annotate
  \/ Summarise

FetchSpec == Init /\ [][FetchNext]_vars

\* a timer that is armed fires: the abort timer of a request, the timer of a
\* retry delay
TimerFires ==
  /\ Ready
  /\ \E i \in 1..Len(calls) :
       \/ /\ calls[i].stage \in {"request", "body"}
          /\ calls[i].timer
          /\ calls' = [calls EXCEPT ![i] = Catch(calls[i], "AbortError")]
       \/ /\ calls[i].stage = "delay"
          /\ calls' = [calls EXCEPT ![i].stage = "request", ![i].timer = TRUE]

\* the continuation of a settled promise runs
Microtask ==
  /\ phase = "Done"
  /\ \E i \in 1..Len(calls) :
       calls[i].stage \in {"resolved", "rejected"} /\ calls' = Settled(i)

\* the event loop runs the timers that are due and the continuations of the
\* promises that have settled, and a render runs on to its end; nothing
\* makes the network or the server answer
FairFetchSpec ==
  FetchSpec /\ WF_calls(TimerFires) /\ WF_calls(Microtask) /\ WF_phase(Advance)

(***************************************************************************)
(* Properties: the timeframe filter                                        *)
(***************************************************************************)
Range(sq) == {sq[j] : j \in 1..Len(sq)}

\* the run has filtered a non-empty dataset
Filtered == phase # "Filtering" /\ Len(data) > 0

\* the length of a timeframe's window: 24 hours, 7 days or 30 days
WindowHours(tf) ==
  (IF tf = "24h" THEN 24 ELSE IF tf = "7d" THEN 7 * 24 ELSE 30 * 24) * HourMs

\* the latest timestamp present in a non-empty dataset
LatestTimestamp(d) ==
  CHOOSE t \in {d[j].Timestamp : j \in 1..Len(d)} :
    \A j \in 1..Len(d) : d[j].Timestamp <= t

\* the readings of d later than cut, in their order in d
LaterThan(d, cut) == LET Keep(r) == r.Timestamp > cut IN SelectSeq(d, Keep)

\* C1: for every reading sequence and every timeframe, the filter returns
\* exactly the readings whose timestamp is strictly greater than (latest
\* timestamp - window), in their input order: the reading exactly at
\* (latest timestamp - window) is excluded, none inside the window is dropped.
C1_TrailingWindow ==
  Filtered =>
    filteredData = LaterThan(data, LatestTimestamp(data) - WindowHours(timeframe))

\* C2: the reference time of the filter is the maximum timestamp present in
\* the input, whatever the order of the input, so that every permutation of
\* the same input gives the same filtered readings.
C2_ReferenceIsMaximum ==
  Filtered =>
    filteredData = LaterThan(data, filterDate(tz, LatestTimestamp(data), timeframe))

Wider(tf) == IF tf = "24h" THEN {"7d", "30d"} ELSE IF tf = "7d" THEN {"30d"} ELSE {}
Narrower(tf) == IF tf = "30d" THEN {"24h", "7d"} ELSE IF tf = "7d" THEN {"24h"} ELSE {}

\* C3: for the same dataset and reference time, the readings the '24h'
\* filter selects are among those '7d' selects, which are among those '30d'
\* selects: what the run selected lies within the selection of every wider
\* timeframe and contains the selection of every narrower one.
C3_WindowContainment ==
  Filtered =>
    /\ \A w \in Wider(timeframe) :
         Range(filteredData) \subseteq Range(TimeframeFilter(tz, data, w))
    /\ \A nw \in Narrower(timeframe) :
         Range(TimeframeFilter(tz, data, nw)) \subseteq Range(filteredData)

\* a '7d' run whose selection lies strictly between those of '24h' and '30d'
C3_Witness ==
  /\ Filtered
  /\ timeframe = "7d"
  /\ Range(TimeframeFilter(tz, data, "24h")) # Range(filteredData)
  /\ Range(TimeframeFilter(tz, data, "24h")) # {}
  /\ Range(filteredData) # Range(TimeframeFilter(tz, data, "30d"))

(***************************************************************************)
(* Properties: the forecast                                                *)
(***************************************************************************)
\* the run has returned a series computed with trend and seasonal factor
Forecast == phase = "Done" /\ Len(filteredData) >= 2

\* C4: for every point i of a filtered sequence with at least 2 points the
\* predicted fouling resistance is max(((actual[i-1] if i > 0 else actual[i])
\* + slope) * seasonalFactor, 0), with the one slope and the one seasonal
\* factor of the run for all points.
C4_PredictionFormula ==
  Forecast =>
    /\ Len(processedData) = Len(filteredData)
    /\ \A i \in 1..Len(processedData) :
         LET before == IF i > 1 THEN processedData[i - 1].ActualRfoul
                       ELSE processedData[i].ActualRfoul
         IN /\ processedData[i].ActualRfoul = filteredData[i].Rfoul
            /\ processedData[i].PredictedRfoul =
                 MathMax(FMul(FAdd(before, slope), seasonalAdjustmentFactor), Zero)

\* a forecast with a trend, a seasonal correction, a point that is clamped
\* and a point that is not
C4_Witness ==
  /\ Forecast
  /\ slope # Zero
  /\ seasonalAdjustmentFactor # One
  /\ \E i \in 2..Len(processedData) :
       /\ processedData[i].PredictedRfoul # Zero
       /\ processedData[i].PredictedRfoul # processedData[i - 1].ActualRfoul
       /\ processedData[i].ActualRfoul # processedData[i - 1].ActualRfoul
  /\ \E i \in 2..Len(processedData) :
       /\ processedData[i].PredictedRfoul = Zero
       /\ FLt(processedData[i - 1].ActualRfoul, Zero)

\* C5: the pipeline never emits a negative predicted fouling resistance,
\* whatever the input (raw readings with negative Rfoul, windows with fewer
\* than 2 points): every point of the returned series has predicted >= 0.
C5_PredictedNonNegative ==
  phase = "Done" =>
    \A i \in 1..Len(processedData) : FGe(processedData[i].PredictedRfoul, Zero)

(***************************************************************************)
(* Properties: the seasonal factor                                         *)
(***************************************************************************)
\* the run has computed its seasonal factor
Adjusted == phase \in {"Annotating", "Summarising", "Done"} /\ Len(filteredData) >= 2

\* x clamped to [0.8, 1.2]
Clamp(x) ==
  IF FLt(x, Dec(8, 10)) THEN Dec(8, 10) ELSE IF FGt(x, Dec(12, 10)) THEN Dec(12, 10) ELSE x

\* C6: the seasonal adjustment factor used by any run lies in the closed
\* interval [0.8, 1.2], for every dataset.
C6_FactorBounded ==
  /\ FLe(Dec(8, 10), seasonalAdjustmentFactor)
  /\ FLe(seasonalAdjustmentFactor, Dec(12, 10))

\* C7 as claimed: the factor is exactly 1.0 when the current or the last-year
\* window holds no reading or when avgLastYear is below 1e-7; in every other
\* case it is avgCurrent / avgLastYear clamped to [0.8, 1.2] (a tiny or zero
\* avgCurrent with a valid avgLastYear gives 0.8; avgLastYear equal to 1e-7
\* is not below the threshold).
C7_AsClaimed ==
  Adjusted =>
    seasonalAdjustmentFactor =
      IF \/ Len(currentPeriodRfouls) = 0
         \/ Len(lastYearPeriodRfouls) = 0
         \/ FLt(Average(lastYearPeriodRfouls), Dec(1, 10000000))
      THEN One
      ELSE Clamp(FDiv(Average(currentPeriodRfouls), Average(lastYearPeriodRfouls)))

\* C7 (amended): the factor is exactly 1.0 when the current or the last-year
\* window holds no reading, or when avgLastYear or avgCurrent is not greater
\* than 1e-7; in every other case it is avgCurrent / avgLastYear clamped to
\* [0.8, 1.2].
C7_FactorCases ==
  Adjusted =>
    seasonalAdjustmentFactor =
      IF \/ Len(currentPeriodRfouls) = 0
         \/ Len(lastYearPeriodRfouls) = 0
         \/ ~FGt(Average(lastYearPeriodRfouls), Dec(1, 10000000))
         \/ ~FGt(Average(currentPeriodRfouls), Dec(1, 10000000))
      THEN One
      ELSE Clamp(FDiv(Average(currentPeriodRfouls), Average(lastYearPeriodRfouls)))

\* a run whose last-year average is exactly 1e-7 while the current average
\* is above it: the factor is 1.0
C7_Witness ==
  /\ Adjusted
  /\ Len(lastYearPeriodRfouls) > 0
  /\ Average(lastYearPeriodRfouls) = Dec(1, 10000000)
  /\ FGt(Average(currentPeriodRfouls), Dec(1, 10000000))
  /\ seasonalAdjustmentFactor = One

(***************************************************************************)
(* Properties: the trend                                                   *)
(***************************************************************************)
\* the run has fitted its trend
Fitted ==
  /\ phase \in {"SeasonalAdjusting", "Annotating", "Summarising", "Done"}
  /\ Len(filteredData) >= 2

\* term(0) + term(1) + ... + term(n - 1), added in this order to 0
RECURSIVE Sigma(_, _, _)
Sigma(term(_), n, acc) ==
  IF acc.i = n
  THEN acc.sum
  ELSE Sigma(term, n, [i |-> acc.i + 1, sum |-> FAdd(acc.sum, term(acc.i))])

\* (n*Sum(i*y_i) - Sum(i)*Sum(y_i)) / (n*Sum(i^2) - Sum(i)^2) for the n >= 2
\* values y(0), ..., y(n - 1)
LeastSquares(y(_), n) ==
  LET from0 == [i |-> 0, sum |-> Zero]
      X(i) == FromInt(i)
      XY(i) == FMul(FromInt(i), y(i))
      XX(i) == FMul(FromInt(i), FromInt(i))
      Sx == Sigma(X, n, from0)
      Sy == Sigma(y, n, from0)
      Sxy == Sigma(XY, n, from0)
      Sxx == Sigma(XX, n, from0)
  IN FDiv(FSub(FMul(FromInt(n), Sxy), FMul(Sx, Sy)),
          FSub(FMul(FromInt(n), Sxx), FMul(Sx, Sx)))

\* the number of points the trend is fitted to
Recent == IF Len(filteredData) < 24 THEN Len(filteredData) ELSE 24

\* the i-th (from 0) of the most recent Recent values of the filtered window
RecentRfoul(i) == filteredData[Len(filteredData) - Recent + i + 1].Rfoul

\* the i-th (from 0) value of the whole filtered window
WindowRfoul(i) == filteredData[i + 1].Rfoul

\* C8: the trend slope is the ordinary-least-squares slope of Rfoul against
\* the sample index 0..n-1 over the most recent n = min(24, N) points of the
\* filtered window, (n*Sum(i*y_i) - Sum(i)*Sum(y_i)) / (n*Sum(i^2) - Sum(i)^2);
\* points older than the last 24 do not influence it.
C8_LeastSquaresOverRecent ==
  Fitted => slope = LeastSquares(RecentRfoul, Recent)

\* a window of more than 24 points whose older points would change the slope
C8_Witness ==
  /\ Fitted
  /\ Len(filteredData) > 24
  /\ slope # Zero
  /\ slope # LeastSquares(WindowRfoul, Len(filteredData))

\* |a|
FAbs(a) == IF a.k = "fin" /\ a.m # 0 THEN [a EXCEPT !.s = 1] ELSE a

\* the relative floating-point tolerance 2^-(Prec - 8): the last eight bits
RelTolerance == [k |-> "fin", s |-> 1, m |-> 2^(Prec - 1), e |-> 9 - 2 * Prec]

\* x equals b to floating-point tolerance
Near(x, b) == FLe(FAbs(FSub(x, b)), FMul(RelTolerance, FAbs(b)))

\* C9: for a series y_i = a + b*i over n >= 2 points (every value is the one
\* before it plus b) the trend slope equals b to floating-point tolerance,
\* and a constant series (b = 0) gives slope exactly 0; for n <= 1 the slope
\* is exactly 0.
C9_SlopeRecoversIncrement ==
  /\ phase = "Done" /\ Len(filteredData) <= 1 => slope = Zero
  /\ Fitted =>
       LET b == FSub(RecentRfoul(1), RecentRfoul(0))
       IN (\A i \in 1..(Recent - 1) :
             /\ FSub(RecentRfoul(i), RecentRfoul(i - 1)) = b
             /\ FAdd(RecentRfoul(i - 1), b) = RecentRfoul(i))
          => IF b = Zero THEN slope = Zero ELSE Near(slope, b)

(***************************************************************************)
(* Properties: the scenario of 48 hourly readings                          *)
(***************************************************************************)
\* 48 hourly readings with Rfoul rising linearly from 0.000020 to 0.000040
Rising48 == Ramp(48, 940, 20, 47000000)

\* (0.000040 - 0.000020) / 47
Increment == Dec(20, 47000000)

\* a '24h' run over the 48 readings has returned
Scenario == data = Rising48 /\ timeframe = "24h" /\ phase = "Done"

\* C10: for 48 hourly readings with Rfoul rising linearly from 0.000020 to
\* 0.000040 and no prior-year data, the '24h' filter followed by the trend
\* estimator works on the last 24 points and yields
\* slope = (0.000040 - 0.000020)/47 (to floating-point tolerance) with
\* seasonal factor 1.0, and the forecast for the point after a reading, the
\* last one included, equals that reading's actual value + slope.
C10_HourlyRamp ==
  Scenario =>
    /\ SliceLast(filteredData, 24) = SubSeq(data, 25, 48)
    /\ Near(slope, Increment)
    /\ seasonalAdjustmentFactor = One
    /\ \A i \in 2..Len(processedData) :
         processedData[i].PredictedRfoul = FAdd(processedData[i - 1].ActualRfoul, slope)
    /\ Predict(Append(filteredData, data[Len(data)]), Len(filteredData) + 1, slope,
               seasonalAdjustmentFactor)
         = FAdd(data[Len(data)].Rfoul, slope)

(***************************************************************************)
(* Properties: degenerate inputs                                           *)
(***************************************************************************)
\* v is a finite Number
IsFinite(v) == v.k = "fin"

\* C11: no NaN or Infinity reaches the pipeline output: a slope or a window
\* average that is not finite is replaced by the fallback (slope = 0,
\* factor = 1.0), so the slope, the factor and every predicted value of the
\* returned series are finite numbers, also when a reading carries a
\* non-numeric Rfoul.
C11_OutputFinite ==
  phase = "Done" =>
    /\ IsFinite(slope)
    /\ IsFinite(seasonalAdjustmentFactor)
    /\ \A i \in 1..Len(processedData) : IsFinite(processedData[i].PredictedRfoul)

C13_EmptyInput ==
  phase = "Done" /\ Len(data) = 0 =>
    /\ processedData = <<>>
    /\ currentStats = NoStats
    /\ costBreakdown = <<>>

\* the dashboard before its first data, after a change of the timeframe
C13_Witness ==
  /\ phase = "Done"
  /\ data = <<>>
  /\ timeframe = "30d"
  /\ currentStats = NoStats

(***************************************************************************)
(* Properties: the data source                                             *)
(***************************************************************************)
\* the last fetch has ended in the fallback
FellBack == isOnline = FALSE

\* C14 as claimed: when the data source fails (network, parsing or
\* empty-result error, retries exhausted) the failure is treated as "no
\* data": the resulting series is empty, there is no latest point and no
\* alert is raised.
C14_FailureIsNoData ==
  FellBack /\ phase = "Done" =>
    /\ processedData = <<>>
    /\ currentStats = NoStats

\* C14 (amended): when the data source fails and the retries are exhausted,
\* the dashboard falls back to generated mock data and says so (data source
\* 'Mock Data (Database Unavailable)', offline, the error 'Using simulated
\* data - database connection failed'): the resulting series is that of the
\* simulated readings, not empty, it has a latest point, and the alert rules
\* are evaluated on it (the COST alert is raised).
C14_FailureFallsBackToMock ==
  /\ \A i \in 1..Len(calls) :
       calls[i].stage = "rejected" => calls[i].retries = maxRetries
  /\ FellBack =>
    /\ dataSource = "Mock Data (Database Unavailable)"
    /\ Len(data) > 0
    /\ \A j \in 1..Len(data) :
         /\ data[j].Uclean = U_CLEAN
         /\ FGe(data[j].Ufoul, FromInt(2300)) /\ FLt(data[j].Ufoul, FromInt(2400))
    /\ mounted = "mounted" /\ calls = <<>> =>
         /\ error = "Using simulated data - database connection failed"
         /\ isLoading = FALSE
    /\ phase = "Done" =>
         /\ Len(processedData) > 0
         /\ currentStats # NoStats
         /\ currentStats.Timestamp = data[Len(data)].Timestamp
         /\ \E a \in 1..Len(currentStats.alerts) : currentStats.alerts[a] = "COST"

\* the dashboard showing simulated data after the fourth failed request
C14_Witness ==
  /\ FellBack
  /\ mounted = "mounted"
  /\ calls = <<>>
  /\ writer = fetchCount
  /\ phase = "Done"
  /\ currentStats # NoStats
  /\ currentStats.alerts = <<"COST">>

(***************************************************************************)
(* Properties: the latest point                                            *)
(***************************************************************************)
\* the run has returned a latest point
Summarised == phase = "Done" /\ currentStats # NoStats

\* the rules in their order
Rules == <<"CRITICAL", "PERFORMANCE", "COST", "ENVIRONMENTAL">>

\* the condition of a rule on the latest point
Matches(rule) ==
  CASE rule = "CRITICAL" -> FGt(currentStats.Rfoul, Dec(76, 100000))
    [] rule = "PERFORMANCE" -> FLt(currentStats.efficiency, FromInt(75))
    [] rule = "COST" -> FGt(currentStats.dailyCost, FromInt(5000))
    [] rule = "ENVIRONMENTAL" -> FGt(currentStats.co2Emissions, FromInt(50000))

\* C15: the alert list of one evaluation is exactly the sub-list of
\* [CRITICAL (Rfoul > 0.00076), PERFORMANCE (efficiency < 75), COST
\* (dailyCost > 5000), ENVIRONMENTAL (co2 > 50000)] whose condition holds for
\* the latest point: every matching rule fires, no other does, and the
\* order is always CRITICAL, PERFORMANCE, COST, ENVIRONMENTAL.
C15_AlertRules ==
  Summarised => currentStats.alerts = SelectSeq(Rules, Matches)

\* a latest point at the threshold of CRITICAL and of PERFORMANCE, above
\* those of COST and ENVIRONMENTAL
C15_Witness ==
  /\ Summarised
  /\ currentStats.Rfoul = Dec(76, 100000)
  /\ currentStats.efficiency = FromInt(75)
  /\ currentStats.alerts = <<"COST", "ENVIRONMENTAL">>

\* how often a rule is in the alert list
Count(rule) == Cardinality({a \in 1..Len(currentStats.alerts) : currentStats.alerts[a] = rule})

\* C16: with the threshold of CRITICAL configured as 0.00026, a latest point
\* with Rfoul = 0.0003 produces exactly one CRITICAL alert, and no rule ever
\* contributes more than one alert to a single evaluation.
C16_ConfiguredCritical ==
  Summarised =>
    /\ \A a \in 1..4 : Count(Rules[a]) <= 1
    /\ currentStats.Rfoul = Dec(3, 10000) => Count("CRITICAL") = 1

\* C17: the derived metrics of the latest point are the composition of the
\* formulas: efficiency = 100*Ufoul/Uclean, energyLossKw =
\* (Uclean-Ufoul)*area*lmtd/1000, dailyCost = energyLossKw*rate*hours, coal =
\* energyLossKw*hours*0.36/1000, co2 = coal*2.86, maintenance = 15% of
\* dailyCost, efficiency-loss cost = 8% of dailyCost, environmental =
\* coal*coalPrice*0.02, total = the sum of the four costs; Ufoul = 2300,
\* Uclean = 2500, area = 44370, lmtd = 14 gives efficiency 92 and
\* energyLossKw 124236 (to floating-point tolerance).
C17_DerivedMetrics ==
  Summarised =>
    LET st == currentStats
        coal == FDiv(FMul(FMul(st.energyLoss, FromInt(24)), Dec(36, 100)), FromInt(1000))
    IN /\ st.efficiency = FMul(FDiv(st.Ufoul, st.Uclean), FromInt(100))
       /\ st.energyLoss =
            FDiv(FMul(FMul(FSub(st.Uclean, st.Ufoul), FromInt(44370)), st.LMTD),
                 FromInt(1000))
       /\ st.dailyCost = FMul(FMul(st.energyLoss, Dec(12, 100)), FromInt(24))
       /\ st.co2Emissions = FMul(coal, Dec(286, 100))
       /\ st.maintenanceCost = FMul(st.dailyCost, Dec(15, 100))
       /\ st.efficiencyLossCost = FMul(st.dailyCost, Dec(8, 100))
       /\ st.environmentalCost = FMul(FMul(coal, FromInt(5000)), Dec(2, 100))
       /\ st.totalDailyCost =
            FAdd(FAdd(FAdd(st.dailyCost, st.maintenanceCost), st.efficiencyLossCost),
                 st.environmentalCost)
       /\ costBreakdown =
            <<[name |-> "Energy Loss", value |-> st.dailyCost],
              [name |-> "Maintenance", value |-> st.maintenanceCost],
              [name |-> "Efficiency Loss", value |-> st.efficiencyLossCost],
              [name |-> "Environmental", value |-> st.environmentalCost]>>
       /\ st.Ufoul = FromInt(2300) /\ st.Uclean = FromInt(2500) /\ st.LMTD = FromInt(14)
            => /\ st.efficiency = FromInt(92)
               /\ Near(st.energyLoss, FromInt(124236))

\* the latest point of the example, with its efficiency of 92
C17_Witness ==
  /\ Summarised
  /\ currentStats.Ufoul = FromInt(2300)
  /\ currentStats.Uclean = FromInt(2500)
  /\ currentStats.LMTD = FromInt(14)
  /\ currentStats.efficiency = FromInt(92)
  /\ FGt(currentStats.totalDailyCost, currentStats.dailyCost)

\* C18: a reading with Uclean = 0 makes the efficiency computation fail with
\* an error that aborts the run: it never yields a point of the series or a
\* latest summary, and no efficiency is Infinity or NaN.
C18_ZeroUcleanFails ==
  phase = "Done" =>
    /\ \A i \in 1..Len(processedData) :
         /\ ~IsZero(processedData[i].Uclean)
         /\ processedData[i].Uclean # Null => IsFinite(processedData[i].efficiency)
    /\ currentStats # NoStats /\ currentStats.Uclean # Null
         => IsFinite(currentStats.efficiency)

\* the numeric fields that a reading must have
WellFormed(r) == r.Rfoul # Null /\ r.Ufoul # Null /\ r.Uclean # Null /\ r.LMTD # Null

\* C19: a record that lacks a required numeric field is rejected on its
\* own: the well-formed records of the batch are processed as if it were
\* not there, and it does not appear in the returned series.
C19_MalformedRejected ==
  phase = "Done" =>
    /\ \A i \in 1..Len(processedData) : WellFormed(processedData[i])
    /\ LET Good(r) == WellFormed(r)
       IN Len(processedData) = Len(SelectSeq(filteredData, Good))

(***************************************************************************)
(* Properties: the input                                                   *)
(***************************************************************************)
\* C20: a pipeline run never mutates its input: from the start of a run to
\* its end, through the series, the latest summary and the alerts, the input
\* sequence keeps its length, its order and its field values.
C20_InputNotMutated == [][phase # "Done" => data' = data]_vars

\* a finished run over several readings, whose records differ from the
\* readings they were made from
C20_Witness ==
  /\ phase = "Done"
  /\ Len(data) >= 2
  /\ Len(processedData) = Len(data)
  /\ currentStats # NoStats
  /\ \A i \in 1..Len(data) : processedData[i] # data[i]

(***************************************************************************)
(* Properties: runs                                                        *)
(***************************************************************************)
\* what a run over the readings d with the timeframe tf in the zone leaves
\* behind: its locals and the values of the three memos
RunOf(zone, d, tf) ==
  LET filtered == IF Len(d) = 0 THEN <<>> ELSE TimeframeFilter(zone, d, tf)
      sparse == Len(filtered) < 2
      ref == d[Len(d)].Timestamp
      start == ref - lookbackPeriodMs
      current == IF sparse THEN <<>> ELSE PeriodRfouls(d, start, ref)
      lastYear ==
        IF sparse THEN <<>>
        ELSE PeriodRfouls(d, setFullYear(zone, start, getFullYear(zone, start) - 1),
                          setFullYear(zone, ref, getFullYear(zone, ref) - 1))
      sl == IF sparse THEN Zero ELSE TrendSlope(filtered)
      factor == IF sparse THEN One ELSE SeasonalFactor(Average(current), Average(lastYear))
      series ==
        [j \in 1..Len(filtered) |->
           AnnotatedPoint(filtered[j],
                          IF sparse THEN filtered[j].Rfoul
                          ELSE Predict(filtered, j, sl, factor))]
  IN [filteredData |-> filtered, slope |-> sl, currentPeriodRfouls |-> current,
      lastYearPeriodRfouls |-> lastYear, seasonalAdjustmentFactor |-> factor,
      processedData |-> series, currentStats |-> CurrentStats(series),
      costBreakdown |-> CostBreakdown(CurrentStats(series))]

\* C21: the pipeline is deterministic and stateless across runs: what a
\* finished run has produced (annotated series, latest summary with its
\* alerts, cost breakdown, and the locals it computed them from) is a
\* function of the readings, the timeframe and the host's time zone alone,
\* whatever ran before and whenever it runs.
C21_Deterministic ==
  phase = "Done" =>
    [filteredData |-> filteredData, slope |-> slope,
     currentPeriodRfouls |-> currentPeriodRfouls,
     lastYearPeriodRfouls |-> lastYearPeriodRfouls,
     seasonalAdjustmentFactor |-> seasonalAdjustmentFactor,
     processedData |-> processedData, currentStats |-> currentStats,
     costBreakdown |-> costBreakdown] = RunOf(tz, data, timeframe)

\* a finished run with a trend and a seasonal factor of its own
C21_Witness ==
  /\ phase = "Done"
  /\ Len(processedData) >= 2
  /\ ~IsZero(slope)
  /\ seasonalAdjustmentFactor # One
  /\ currentStats # NoStats

(***************************************************************************)
(* Properties: the seasonal windows                                        *)
(***************************************************************************)
\* in the zone, u is the same day of the same month at the same time of day
\* as t, one year earlier
OneYearBefore(zone, t, u) ==
  LET a == LocalTime(zone, t)
      b == LocalTime(zone, u)
  IN /\ TimeWithinDay(b) = TimeWithinDay(a)
     /\ YearFromTime(b) = YearFromTime(a) - 1
     /\ MonthFromTime(b) = MonthFromTime(a)
     /\ DateFromTime(b) = DateFromTime(a)

\* the time one calendar year before t: 365 or 366 days back, give or take
\* the difference of the zone's offsets
YearBack(zone, t) ==
  CHOOSE u \in {t - days * msPerDay + k :
                 days \in {365, 366},
                 k \in {0, zone.after - zone.before, zone.before - zone.after}} :
    OneYearBefore(zone, t, u)

\* the readings of d from lo to hi, both included
Between(d, lo, hi) ==
  LET In(r) == lo <= r.Timestamp /\ r.Timestamp <= hi IN SelectSeq(d, In)

\* the arithmetic mean of the Rfoul of the readings w, 0 for none
MeanRfoul(w) ==
  LET y(i) == w[i + 1].Rfoul
  IN IF Len(w) = 0 THEN Zero
     ELSE FDiv(Sigma(y, Len(w), [i |-> 0, sum |-> Zero]), FromInt(Len(w)))

\* C22: the last-year seasonal window is the current 24-hour window (ending
\* at the reference time) with both its ends moved back exactly one calendar
\* year; the seasonal factor is computed from the mean of Rfoul over the
\* readings of the full, unfiltered dataset in the current window and the
\* mean over those in the last-year window, neither of which depends on the
\* display timeframe.
C22_LastYearWindow ==
  Adjusted =>
    LET ref == data[Len(data)].Timestamp
        lo == YearBack(tz, ref - 24 * HourMs)
        hi == YearBack(tz, ref)
        current == Between(data, ref - 24 * HourMs, ref)
        lastYear == Between(data, lo, hi)
    IN /\ currentPeriodRfouls = [j \in 1..Len(current) |-> current[j].Rfoul]
       /\ lastYearPeriodRfouls = [j \in 1..Len(lastYear) |-> lastYear[j].Rfoul]
       /\ seasonalAdjustmentFactor = SeasonalFactor(MeanRfoul(current), MeanRfoul(lastYear))

\* a '24h' run over four readings, two of them a year back and outside the
\* filtered window, where the clocks changed during the current window
C22_Witness ==
  /\ Adjusted
  /\ timeframe = "24h"
  /\ tz = ZoneForward
  /\ Len(filteredData) = 2
  /\ Len(lastYearPeriodRfouls) = 2
  /\ seasonalAdjustmentFactor # One

(***************************************************************************)
(* Properties: the states of a run                                         *)
(***************************************************************************)
\* the place of a state in the order of a run; the series is returned when
\* the run leaves Annotating, the summary of its last point follows
Rank(p) ==
  CASE p = "Filtering" -> 1
    [] p = "TrendFitting" -> 2
    [] p = "SeasonalAdjusting" -> 3
    [] p = "Annotating" -> 4
    [] p = "Summarising" -> 5
    [] p = "Done" -> 6

\* a step of a run, or the start of the next run
InOrder ==
  phase' # phase =>
    IF phase = "Done" THEN phase' = "Filtering"
    ELSE /\ Rank(phase') > Rank(phase)
         /\ phase' = "TrendFitting" => phase = "Filtering" /\ Len(filteredData') >= 2
         /\ phase' = "SeasonalAdjusting" => phase = "TrendFitting"
         /\ phase' = "Annotating" =>
              \/ phase = "SeasonalAdjusting"
              \/ phase = "Filtering" /\ Len(filteredData') < 2
         /\ phase = "Filtering" /\ Len(data) > 0 /\ Len(filteredData') < 2
              => phase' = "Annotating"
         /\ phase' = "Summarising" =>
              \/ phase = "Annotating"
              \/ phase = "Filtering" /\ Len(data) = 0
         /\ phase' = "Done" => phase = "Summarising"

\* C23: every run moves through Filtering, TrendFitting, SeasonalAdjusting,
\* Annotating, Done in that order, never returns to an earlier state and
\* always reaches Done; when the filtered window has fewer than 2 points the
\* run goes from Filtering to Annotating without entering TrendFitting or
\* SeasonalAdjusting (and straight to the return of the empty series when
\* there is no reading at all).
C23_StatesInOrder == [][InOrder]_vars /\ (phase # "Done" ~> phase = "Done")

\* a finished run that went from Filtering to Annotating
C23_Witness ==
  /\ phase = "Done"
  /\ Len(data) = 2
  /\ Len(filteredData) = 1
  /\ IsZero(slope)
  /\ currentPeriodRfouls = <<>>
  /\ Len(processedData) = 1

(***************************************************************************)
(* Properties: the two variants                                            *)
(***************************************************************************)
\* C30: the two forks agree when the seasonal adjustment is a no-op: for the
\* same readings and timeframe, with at least 2 readings in the window and a
\* seasonal factor of 1.0, the series of Dashboard.js and that of part_000
\* have the same length and the same Actual Rfoul, Predicted Rfoul,
\* efficiency and energyLoss at every index.
C30_ForksAgree ==
  Forecast /\ seasonalAdjustmentFactor = One =>
    LET older == part000_processedData(tz, data, timeframe)
    IN /\ Len(older) = Len(processedData)
       /\ \A i \in 1..Len(processedData) :
            /\ older[i].ActualRfoul = processedData[i].ActualRfoul
            /\ older[i].PredictedRfoul = processedData[i].PredictedRfoul
            /\ older[i].efficiency = processedData[i].efficiency
            /\ older[i].energyLoss = processedData[i].energyLoss

\* a series with a falling trend and a factor of 1.0, one of whose
\* predictions is held at zero
C30_Witness ==
  /\ Forecast
  /\ seasonalAdjustmentFactor = One
  /\ FLt(slope, Zero)
  /\ \E i \in 1..Len(processedData) :
       /\ IsZero(processedData[i].PredictedRfoul)
       /\ FLt(processedData[i].ActualRfoul, Zero)

(***************************************************************************)
(* Properties: DatabaseService.fetchData                                   *)
(***************************************************************************)
\* what an attempt can fail with
Failures ==
  {"AbortError", "TypeError", "HTTP", "SyntaxError", "Invalid data format",
   "No data available"}

\* the state of each call is that of at most the fourth attempt; a call that
\* waits does so after a failure of attempt k + 1, for 2^k seconds; a call
\* is rejected by its fourth failure only, and resolved with a non-empty
\* array only
AttemptsBounded ==
  \A i \in 1..Len(calls) :
    LET call == calls[i] IN
      /\ call.retries \in 0..3
      /\ call.stage = "delay" =>
           /\ call.error \in Failures
           /\ \/ call.retries = 0 /\ call.delay = 1000
              \/ call.retries = 1 /\ call.delay = 2000
              \/ call.retries = 2 /\ call.delay = 4000
      /\ call.stage = "rejected" => call.retries = 3 /\ call.error \in Failures
      /\ call.stage = "resolved" => Len(call.data) > 0

\* a step of a call: once resolved it makes no other attempt; the body of a
\* response that is not ok, that is no array or that is an empty array
\* fails the attempt, and so does the end of a request without a response;
\* the error of the failure is the one the call waits or is rejected with
AttemptStep ==
  \A i \in 1..Len(calls) :
    /\ calls[i].stage = "resolved" =>
         \A j \in 1..Len(calls') : calls'[j].id # calls[i].id
    /\ Len(calls') = Len(calls) /\ calls'[i] # calls[i] =>
         /\ calls[i].stage = "body" /\ ~calls[i].ok =>
              /\ calls'[i].stage \in {"delay", "rejected"}
              /\ calls'[i].error = "HTTP"
         /\ calls[i].stage = "body" /\ calls[i].ok =>
              \/ calls'[i].stage = "resolved" /\ calls'[i].retries = calls[i].retries
              \/ /\ calls'[i].stage \in {"delay", "rejected"}
                 /\ calls'[i].error \in {"SyntaxError", "Invalid data format",
                                          "No data available"}
         /\ calls[i].stage = "request" =>
              \/ calls'[i].stage = "body"
              \/ /\ calls'[i].stage \in {"delay", "rejected"}
                 /\ calls'[i].error \in {"AbortError", "TypeError"}
         /\ calls'[i].stage = "rejected" => calls[i].retries = 3
         /\ calls'[i].stage = "request" =>
              calls[i].stage = "delay" /\ calls'[i].retries = calls[i].retries + 1

\* C24: DatabaseService.fetchData makes at most maxRetries + 1 = 4 attempts
\* and returns the data of the first successful one without attempting
\* again; before retry number k (k = 0, 1, 2) it waits 2^k * 1000 ms; after
\* the fourth failed attempt it rejects with that attempt's error; a
\* non-OK status, a non-array body, an empty array and a timeout all count
\* as failed attempts.
C24_AtMostFourAttempts == []AttemptsBounded /\ [][AttemptStep]_vars

\* a call rejected by the timeout of its fourth request, after three waits
C24_Witness ==
  \E i \in 1..Len(calls) :
    /\ calls[i].stage = "rejected"
    /\ calls[i].retries = 3
    /\ calls[i].error = "AbortError"

\* the n-th call of Dashboard.fetchData awaits DatabaseService.fetchData
InFlight(n) ==
  \E i \in 1..Len(calls) :
    calls[i].id = n /\ calls[i].stage \notin {"resolved", "rejected"}

\* C25: every call of DatabaseService.fetchData eventually resolves or
\* rejects: each attempt is ended by the 10000 ms abort timer if the server
\* does not answer, including while the response body is still being read
\* after the headers have arrived.
C25_EveryCallSettles ==
  \A n \in 1..MaxFetches : InFlight(n) ~> ~InFlight(n)

(***************************************************************************)
(* Properties: Dashboard.fetchData                                         *)
(***************************************************************************)
\* the component is shown, a call of fetchData has completed and none is
\* under way
Quiet == mounted = "mounted" /\ fetchCount >= 1 /\ calls = <<>>

\* C26: whenever no Dashboard fetch is in flight after at least one has
\* completed, isLoading is false, data is non-empty, and either dataSource
\* is 'Database' with isOnline true and error null, or dataSource is 'Mock
\* Data (Database Unavailable)' with isOnline false and the error set; this
\* also holds when fetches overlap.
C26_SettledStateConsistent ==
  Quiet =>
    /\ isLoading = FALSE
    /\ Len(data) > 0
    /\ \/ dataSource = "Database" /\ isOnline = TRUE /\ error = "null"
       \/ /\ dataSource = "Mock Data (Database Unavailable)"
          /\ isOnline = FALSE
          /\ error = "Using simulated data - database connection failed"

\* C27: when two fetches overlap, the data, dataSource and isOnline shown
\* once both have settled are those of the fetch that was started last; a
\* fetch started for a previous timeframe never overwrites the result of a
\* later one.
C27_LastStartedWins ==
  /\ [](Quiet => writer = fetchCount)
  /\ [][writer' >= writer]_vars

\* the effect runs in this step: after the first render, after a render
\* with another timeframe
EffectRuns ==
  \/ mounted = "initial" /\ mounted' = "mounted"
  \/ timeframe' # timeframe

\* this step starts exactly one call of fetchData
OneFetchStarts ==
  /\ fetchCount' = fetchCount + 1
  /\ Len(calls') = Len(calls) + 1
  /\ \A i \in 1..Len(calls) : calls'[i] = calls[i]
  /\ calls'[Len(calls')].id = fetchCount'
  /\ calls'[Len(calls')].stage = "request"
  /\ calls'[Len(calls')].retries = 0

\* C28: at most one auto-refresh interval timer is active at any time; each
\* timeframe change or unmount clears the previous timer before (or without)
\* creating a new one, and each effect run triggers exactly one immediate
\* fetch.
C28_OneIntervalTimer ==
  /\ [](intervals = IF mounted = "mounted" THEN 1 ELSE 0)
  /\ [][EffectRuns => OneFetchStarts]_vars

\* the dashboard after a change of the timeframe: the second effect has
\* started the second fetch and one timer runs
C28_Witness ==
  /\ mounted = "mounted"
  /\ timeframe # "24h"
  /\ fetchCount = 2
  /\ intervals = 1

(***************************************************************************)
(* Properties: the backend                                                 *)
(***************************************************************************)
\* C29: every GET request to /api/heat-exchanger-data receives exactly one
\* response: on success status 200 with a JSON array holding one record per
\* returned row; on failure an error status (error.statusCode when the
\* error carries statusCode and json, otherwise 500) with a JSON message
\* object and no partial data; the response does not depend on the
\* timeframe query parameter.
C29_OneResponsePerRequest ==
  \A i \in 1..Len(exchanges) :
    LET x == exchanges[i] IN
      /\ Len(x.sent) = 1
      /\ IF x.result.resolved
         THEN /\ x.sent[1].status = 200
              /\ x.sent[1].kind = "array"
              /\ Len(x.sent[1].array) = Len(x.result.rows)
              /\ \A j \in 1..Len(x.result.rows) :
                   x.sent[1].array[j].Timestamp = x.result.rows[j]._time
         ELSE /\ x.sent[1].status =
                   IF x.result.error.statusCode # 0 /\ x.result.error.json
                   THEN x.result.error.statusCode ELSE 500
              /\ x.sent[1].status >= 400
              /\ x.sent[1].kind = "object"
              /\ x.sent[1].message # ""
              /\ x.sent[1].array = <<>>
      /\ \A req \in Requests : handler(req, x.result) = x.sent

\* the server has answered a request for '24h' with the three rows of the
\* database and another request, whose query failed without a statusCode,
\* with status 500
C29_Witness ==
  /\ \E i \in 1..Len(exchanges) :
       /\ exchanges[i].req.timeframe = "24h"
       /\ exchanges[i].result.resolved
       /\ Len(exchanges[i].sent[1].array) = 3
  /\ \E i \in 1..Len(exchanges) :
       /\ ~exchanges[i].result.resolved
       /\ exchanges[i].result.error.statusCode = 0
       /\ exchanges[i].sent[1].status = 500

=============================================================================
